---- MODULE Spec2Model ----
(***************************************************************************)
(* Model of src/streamlit_app.py: one run of the PV load-profile script.   *)
(* Two uploaded tables are loaded by load_series, clipped by               *)
(* calculate_clipping_loss, aligned and priced by calculate_economics and  *)
(* rendered as st.metric elements by the main script.                      *)
(*                                                                         *)
(* Numbers: file values are integers (kWh, EUR/MWh); max_power_kw is drawn *)
(* from multiples of 4 and prices from multiples of 10, so that "/ 4" and  *)
(* "/ 10" are exact here as they are in binary floating point for these    *)
(* inputs.  A quotient whose denominator may be zero is kept as a pair     *)
(* [num, den]; den = 0 with num = 0 is the float NaN.                      *)
(***************************************************************************)
EXTENDS Integers, Sequences, FiniteSets, TLC

VARIABLES pc, pv_file, price_file, max_power_kw, eeg_ct_per_kwh,
          pv_data, price_data, clipped_pv, clipping_loss, analysis_pv,
          economics, ui

vars == <<pc, pv_file, price_file, max_power_kw, eeg_ct_per_kwh,
          pv_data, price_data, clipped_pv, clipping_loss, analysis_pv,
          economics, ui>>

\* Largest number of data rows of an uploaded table.
MaxRows == 2

\* target_year = 2025
target_year == 2025

\* pd.Timedelta('15 minutes'), in minutes
tolerance == 15

-----------------------------------------------------------------------------
(* Python None and optional series                                         *)

None == [none |-> TRUE, rows |-> <<>>]

Some(s) == [none |-> FALSE, rows |-> s]

-----------------------------------------------------------------------------
(* Calendar: what pd.to_datetime / Timestamp.replace accept, and the order *)
(* of Timestamps.                                                          *)

IsLeap(y) == (y % 4 = 0 /\ y % 100 # 0) \/ y % 400 = 0

DaysInMonth(y, m) ==
    IF m = 2 THEN (IF IsLeap(y) THEN 29 ELSE 28)
    ELSE IF m \in {4, 6, 9, 11} THEN 30 ELSE 31

ValidDate(y, m, d) == m \in 1..12 /\ d >= 1 /\ d <= DaysInMonth(y, m)

RECURSIVE DaysBeforeMonth(_, _)
DaysBeforeMonth(y, m) ==
    IF m <= 1 THEN 0 ELSE DaysBeforeMonth(y, m - 1) + DaysInMonth(y, m - 1)

\* Days from 1 January 2024 to 1 January of year y.
RECURSIVE DaysBeforeYear(_)
DaysBeforeYear(y) ==
    IF y <= 2024 THEN 0
    ELSE DaysBeforeYear(y - 1) + (IF IsLeap(y - 1) THEN 366 ELSE 365)

\* Minutes since the start of 2024: the order and distance of Timestamps.
Ord(t) ==
    (DaysBeforeYear(t.year) + DaysBeforeMonth(t.year, t.month) + (t.day - 1)) * 1440
        + t.minute

Timestamp(y, m, d, mi) == [year |-> y, month |-> m, day |-> d, minute |-> mi]

NoTimestamp == [year |-> 0, month |-> 0, day |-> 0, minute |-> 0]

\* An optional Timestamp: parsed_dt, None until a strategy succeeds.
NoDt == [none |-> TRUE, t |-> NoTimestamp]

Dt(t) == [none |-> FALSE, t |-> t]

-----------------------------------------------------------------------------
(* Timestamp labels (column 0 as text).  kind is the shape of the string:  *)
(*   "full"     DD.MM.YYYY HH:MM                                           *)
(*   "noyear"   DD.MM. HH:MM                                               *)
(*   "dateonly" DD.MM.                                                     *)
(*   "nan"      an empty cell, read back as the text "nan"                 *)
(*   "garbage"  text that is no date, without blank, dot or colon          *)

Label(k, d, m, y, mi) == [kind |-> k, day |-> d, month |-> m, year |-> y, minute |-> mi]

\* Timestamp.replace(year=target_year): raises ValueError when the day does
\* not exist in the target year (29 February), and then nothing is assigned.
ReplaceYear(t) ==
    IF ValidDate(target_year, t.month, t.day)
    THEN Dt(Timestamp(target_year, t.month, t.day, t.minute))
    ELSE NoDt

\* pd.to_datetime(s, dayfirst=True): accepts a label that carries a full
\* calendar date with its year; a label without a year, or no date at all,
\* is rejected (ValueError).
to_datetime(s) ==
    IF s.kind = "full" /\ ValidDate(s.year, s.month, s.day)
    THEN Dt(Timestamp(s.year, s.month, s.day, s.minute))
    ELSE NoDt

\* Strategy 1: auto-parsing, then the year is replaced when it is not
\* target_year.  When replace raises, the bare except passes and parsed_dt
\* keeps the Timestamp to_datetime returned, with the label's own year.
Strategy1(s) ==
    LET p == to_datetime(s) IN
    IF p.none THEN NoDt
    ELSE IF p.t.year # target_year
         THEN (LET r == ReplaceYear(p.t) IN IF r.none THEN p ELSE r)
         ELSE p

\* Strategy 2: "DD.MM. HH:MM" -> "DD.MM.<target_year> HH:MM", parsed with
\* format '%d.%m.%Y %H:%M'.
Strategy2(s) ==
    IF s.kind = "noyear" /\ ValidDate(target_year, s.month, s.day)
    THEN Dt(Timestamp(target_year, s.month, s.day, s.minute))
    ELSE NoDt

\* Strategy 3: a date without time -> "DD.MM.<target_year> 00:00".
Strategy3(s) ==
    IF s.kind = "dateonly" /\ ValidDate(target_year, s.month, s.day)
    THEN Dt(Timestamp(target_year, s.month, s.day, 0))
    ELSE NoDt

\* The body of the loop over the labels for one label: the Timestamp
\* appended to parsed_timestamps, or none when the row is skipped.
ParseLabel(s) ==
    IF s.kind = "nan" THEN NoDt
    ELSE LET p1 == Strategy1(s) IN
         IF ~p1.none THEN p1
         ELSE LET p2 == Strategy2(s) IN
              IF ~p2.none THEN p2
              ELSE Strategy3(s)

\* parsed_timestamps after the loop: the Timestamps of the parsed labels,
\* in file order.
RECURSIVE parsed_timestamps(_)
parsed_timestamps(rows) ==
    IF rows = <<>> THEN <<>>
    ELSE LET p == ParseLabel(Head(rows).label) IN
         (IF p.none THEN <<>> ELSE <<p.t>>) \o parsed_timestamps(Tail(rows))

\* vals.iloc[:len(parsed_timestamps)] paired with parsed_timestamps by
\* position (pd.Series(valid_vals.values, index=parsed_timestamps)).
MakeSeries(rows, ts) ==
    [i \in 1..Len(ts) |-> [ts |-> ts[i], val |-> rows[i].val]]

\* Series.sort_index(): ascending by Timestamp, rows with equal Timestamps
\* keep their order (insertion sort, as numpy sorts short arrays).
RECURSIVE Insert(_, _)
Insert(sorted, p) ==
    IF sorted = <<>> THEN <<p>>
    ELSE IF Ord(sorted[Len(sorted)].ts) <= Ord(p.ts) THEN Append(sorted, p)
    ELSE Append(Insert(SubSeq(sorted, 1, Len(sorted) - 1), p), sorted[Len(sorted)])

RECURSIVE sort_index(_)
sort_index(s) ==
    IF s = <<>> THEN <<>>
    ELSE Insert(sort_index(SubSeq(s, 1, Len(s) - 1)), s[Len(s)])

\* load_series(file): None for no file or no parsed timestamp, else the
\* sorted series.
load_series(file) ==
    IF file.none THEN None
    ELSE LET ts == parsed_timestamps(file.rows) IN
         IF Len(ts) = 0 THEN None
         ELSE Some(sort_index(MakeSeries(file.rows, ts)))

-----------------------------------------------------------------------------
(* Series helpers (pandas)                                                 *)

Min(a, b) == IF a <= b THEN a ELSE b

Abs(a) == IF a < 0 THEN 0 - a ELSE a

RECURSIVE SumVals(_)
SumVals(s) == IF s = <<>> THEN 0 ELSE Head(s).val + SumVals(Tail(s))

IndexSet(s) == {s[i].ts : i \in DOMAIN s}

\* Index.is_unique
is_unique(s) == \A i, j \in DOMAIN s : i # j => s[i].ts # s[j].ts

\* The Timestamps of a set in ascending order.
RECURSIVE SortedIndex(_)
SortedIndex(S) ==
    IF S = {} THEN <<>>
    ELSE LET m == CHOOSE t \in S : \A u \in S : Ord(t) <= Ord(u) IN
         <<m>> \o SortedIndex(S \ {m})

\* pv_series.index.intersection(price_series.index): the common
\* Timestamps, each once, ascending.
intersection(a, b) == SortedIndex(IndexSet(a) \cap IndexSet(b))

\* Series.reindex(index, fill_value=0) on a series with unique index.
reindex(s, index) ==
    [i \in 1..Len(index) |->
        [ts |-> index[i],
         val |-> IF \E j \in DOMAIN s : s[j].ts = index[i]
                 THEN s[CHOOSE j \in DOMAIN s : s[j].ts = index[i]].val
                 ELSE 0]]

\* Index.get_indexer(target, method='nearest') for one target Timestamp on
\* an ascending unique index: the nearer of the last entry at or before t
\* (pad) and the first entry at or after t (backfill); the left one only
\* when it is strictly nearer or there is no right one.  0 when s is empty.
nearest(s, t) ==
    LET left  == {j \in DOMAIN s : Ord(s[j].ts) <= Ord(t)}
        right == {j \in DOMAIN s : Ord(s[j].ts) >= Ord(t)}
        l == IF left = {} THEN 0 ELSE CHOOSE j \in left : \A k \in left : k <= j
        r == IF right = {} THEN 0 ELSE CHOOSE j \in right : \A k \in right : j <= k
    IN  IF l = 0 THEN r
        ELSE IF r = 0 THEN l
        ELSE IF Ord(t) - Ord(s[l].ts) < Ord(s[r].ts) - Ord(t) THEN l ELSE r

\* reindex without its tolerance
within_any_distance(a, b) == TRUE

\* The tolerance filter of get_indexer: the match stands when its distance
\* is at most the tolerance.
within_tolerance(a, b) == Abs(Ord(a) - Ord(b)) <= tolerance

\* price_series.reindex(pv_series.index, method='nearest',
\* tolerance=pd.Timedelta('15 minutes')): at every PV Timestamp the price
\* of the nearest price Timestamp, NaN (isna) when that one is too far.
reindex_nearest(price, pv) ==
    [i \in 1..Len(pv) |->
        LET j == nearest(price, pv[i].ts) IN
        IF j # 0 /\ within_tolerance(price[j].ts, pv[i].ts)
        THEN [ts |-> pv[i].ts, val |-> price[j].val, isna |-> FALSE]
        ELSE [ts |-> pv[i].ts, val |-> 0, isna |-> TRUE]]

\* series[valid_mask] for the mask ~prices_reindexed.isna() (file values
\* are finite numbers here, so ~pv_series.isna() holds everywhere).
RECURSIVE masked(_, _)
masked(s, reindexed) ==
    IF s = <<>> THEN <<>>
    ELSE (IF Head(reindexed).isna THEN <<>> ELSE <<Head(s)>>)
             \o masked(Tail(s), Tail(reindexed))

-----------------------------------------------------------------------------
(* Elements the script puts on the page, in order.  A metric carries the   *)
(* number it formats as the quotient num / den.                            *)

Element(k, n) == [kind |-> k, name |-> n, num |-> 0, den |-> 1]

Metric(n, a, b) == [kind |-> "metric", name |-> n, num |-> a, den |-> b]

\* What load_series writes for one file: a warning for every label no
\* strategy parsed, then the error or the debug expander.
RECURSIVE parse_warnings(_)
parse_warnings(rows) ==
    IF rows = <<>> THEN <<>>
    ELSE (IF Head(rows).label.kind # "nan" /\ ParseLabel(Head(rows).label).none
          THEN <<Element("warning", "Konnte Zeitstempel nicht parsen")>>
          ELSE <<>>) \o parse_warnings(Tail(rows))

load_messages(file) ==
    IF file.none THEN <<>>
    ELSE parse_warnings(file.rows) \o
         (IF Len(parsed_timestamps(file.rows)) = 0
          THEN <<Element("error", "Keine gueltigen Zeitstempel gefunden")>>
          ELSE <<Element("expander", "Debug")>>)

-----------------------------------------------------------------------------
(* calculate_clipping_loss                                                 *)

\* clip with the bound applied from below (clip(lower=...))
clip_lower(power, upper) == IF power <= upper THEN upper ELSE power

\* clip that leaves the power as it is
clip_nothing(power, upper) == power

\* Series.clip(upper=max_power_kw) at one entry
clip(power, upper) == Min(power, upper)

\* x / 4 and x / 10, exact for the inputs drawn here
Div(x, d) == x \div d

calculate_clipping_loss(pv_series, max_power) ==
    LET power_kw      == [i \in DOMAIN pv_series |-> pv_series[i].val * 4]
        clipped_power == [i \in DOMAIN pv_series |-> clip(power_kw[i], max_power)]
        loss          == [i \in DOMAIN pv_series |-> power_kw[i] - clipped_power[i]]
    IN  [clipped_energy |->
            [i \in DOMAIN pv_series |->
                [ts |-> pv_series[i].ts, val |-> Div(clipped_power[i], 4)]],
         clipping_loss_energy |->
            [i \in DOMAIN pv_series |->
                [ts |-> pv_series[i].ts, val |-> Div(loss[i], 4)]]]

-----------------------------------------------------------------------------
(* calculate_economics                                                     *)

\* The return value: outcome "ok" with the results dict, "none" for return
\* None, "raised" when an exception leaves the function.  branch names the
\* alignment that produced the aligned series.
NoResult(o) ==
    [outcome |-> o, branch |-> "-", pv_energy |-> <<>>, prices |-> <<>>,
     eeg_revenue |-> <<>>, market_revenue |-> <<>>, opportunity_cost |-> <<>>,
     total_pv_kwh |-> 0, total_eeg_revenue |-> 0, total_market_revenue |-> 0,
     total_opportunity_cost |-> 0]

\* Lines 187-211: the results dict of the aligned series.
results(branch, pv_aligned, prices_aligned, eeg) ==
    LET prices_ct_per_kwh ==
            [i \in DOMAIN prices_aligned |->
                [ts |-> prices_aligned[i].ts, val |-> Div(prices_aligned[i].val, 10)]]
        eeg_revenue ==
            [i \in DOMAIN pv_aligned |->
                [ts |-> pv_aligned[i].ts, val |-> pv_aligned[i].val * eeg]]
        market_revenue ==
            [i \in DOMAIN pv_aligned |->
                [ts |-> pv_aligned[i].ts,
                 val |-> pv_aligned[i].val * prices_ct_per_kwh[i].val]]
        opportunity_cost ==
            [i \in DOMAIN pv_aligned |->
                [ts |-> pv_aligned[i].ts,
                 val |-> market_revenue[i].val - eeg_revenue[i].val]]
    IN  [outcome |-> "ok", branch |-> branch,
         pv_energy |-> pv_aligned, prices |-> prices_ct_per_kwh,
         eeg_revenue |-> eeg_revenue, market_revenue |-> market_revenue,
         opportunity_cost |-> opportunity_cost,
         total_pv_kwh |-> SumVals(pv_aligned),
         total_eeg_revenue |-> SumVals(eeg_revenue),
         total_market_revenue |-> SumVals(market_revenue),
         total_opportunity_cost |-> SumVals(opportunity_cost)]

\* the empty-mask test left out
no_valid_unchecked(reindexed) == FALSE

\* valid_mask.sum() == 0
no_valid(reindexed) == \A i \in DOMAIN reindexed : reindexed[i].isna

\* Lines 155-181: nearest-neighbour matching.  reindex with a method
\* raises on a price index with duplicate labels; the except returns None.
nearest_branch(pv_series, price_series, eeg) ==
    IF ~is_unique(price_series) THEN NoResult("none")
    ELSE LET prices_reindexed == reindex_nearest(price_series, pv_series) IN
         IF no_valid(prices_reindexed) THEN NoResult("none")
         ELSE results("nearest",
                      masked(pv_series, prices_reindexed),
                      masked([i \in DOMAIN prices_reindexed |->
                                 [ts |-> prices_reindexed[i].ts,
                                  val |-> prices_reindexed[i].val]],
                             prices_reindexed),
                      eeg)

\* Lines 182-185: exact matches.  reindex raises "cannot reindex on an axis
\* with duplicate labels" on a series whose index is not unique; nothing
\* catches it here.
exact_branch(pv_series, price_series, common_index, eeg) ==
    IF ~is_unique(pv_series) \/ ~is_unique(price_series) THEN NoResult("raised")
    ELSE results("exact", reindex(pv_series, common_index),
                 reindex(price_series, common_index), eeg)

calculate_economics(pv_series, price_series, eeg) ==
    IF pv_series.none \/ price_series.none THEN NoResult("none")
    ELSE LET common_index == intersection(pv_series.rows, price_series.rows) IN
         IF Len(common_index) = 0
         THEN nearest_branch(pv_series.rows, price_series.rows, eeg)
         ELSE exact_branch(pv_series.rows, price_series.rows, common_index, eeg)

-----------------------------------------------------------------------------
(* Inputs of a run                                                         *)

Row(l, v) == [label |-> l, val |-> v]

\* Rows of the PV table (kWh per quarter hour): labels without a year as in
\* the documented format, a date without time, the same instant in another
\* year, 29 February of a leap year, and a label that is no date.
PVRows ==
    { Row(Label("noyear", 1, 1, 0, 0), 1),
      Row(Label("noyear", 1, 1, 0, 0), 0),
      Row(Label("noyear", 1, 1, 0, 15), 3),
      Row(Label("noyear", 1, 1, 0, 15), 0),
      Row(Label("dateonly", 1, 1, 0, 0), 3),
      Row(Label("full", 1, 1, 2024, 0), 3),
      Row(Label("full", 29, 2, 2024, 0), 1),
      Row(Label("garbage", 0, 0, 0, 0), 3) }

\* Rows of the price table (EUR/MWh): full labels at 00:00, 00:15 and
\* 00:25, and an empty label.
PriceRows ==
    { Row(Label("full", 1, 1, 2025, 0), 50),
      Row(Label("full", 1, 1, 2025, 15), 0 - 20),
      Row(Label("full", 1, 1, 2025, 25), 50),
      Row(Label("nan", 0, 0, 0, 0), 50) }

\* An uploaded table of at most MaxRows rows, or no upload.
Files(R) == {None} \cup {Some(f) : f \in UNION {[1..n -> R] : n \in 0..MaxRows}}

\* number_input(min_value=0.0): inverter limits in kW, tariffs in ct/kWh
PowerInputs == {0, 4, 8}

TariffInputs == {0, 10}

Init ==
    /\ pc = "start"
    /\ pv_file \in Files(PVRows)
    /\ price_file \in Files(PriceRows)
    /\ max_power_kw \in PowerInputs
    /\ eeg_ct_per_kwh \in TariffInputs
    /\ pv_data = None
    /\ price_data = None
    /\ clipped_pv = None
    /\ clipping_loss = None
    /\ analysis_pv = None
    /\ economics = NoResult("-")
    /\ ui = <<>>

-----------------------------------------------------------------------------
(* The main script                                                         *)

\* Lines 308-329: a file is missing.
NoFiles ==
    /\ pc = "start"
    /\ pv_file.none \/ price_file.none
    /\ ui' = ui \o <<Element("info", "Bitte laden Sie sowohl PV-Daten als auch Preisdaten hoch"),
                      Element("header", "Erwartetes Datenformat")>>
    /\ pc' = "done"
    /\ UNCHANGED <<pv_file, price_file, max_power_kw, eeg_ct_per_kwh, pv_data,
                   price_data, clipped_pv, clipping_loss, analysis_pv, economics>>

\* Lines 214-221: both files are loaded; the script goes on only when both
\* loads returned a series.
LoadData ==
    /\ pc = "start"
    /\ ~pv_file.none /\ ~price_file.none
    /\ pv_data' = load_series(pv_file)
    /\ price_data' = load_series(price_file)
    /\ IF ~pv_data'.none /\ ~price_data'.none
       THEN /\ ui' = ui \o load_messages(pv_file) \o load_messages(price_file)
                       \o <<Element("success", "PV-Daten geladen"),
                            Element("success", "Preisdaten geladen")>>
            /\ pc' = "clipping"
       ELSE /\ ui' = ui \o load_messages(pv_file) \o load_messages(price_file)
            /\ pc' = "done"
    /\ UNCHANGED <<pv_file, price_file, max_power_kw, eeg_ct_per_kwh,
                   clipped_pv, clipping_loss, analysis_pv, economics>>

\* Line 233: clipping_loss.sum() / pv_data.sum() * 100, the quotient as it
\* is formed (0 / 0 is NaN).
loss_percentage(loss, pv) == [num |-> SumVals(loss) * 100, den |-> SumVals(pv)]

\* Lines 224-236: the clipping analysis and its four metrics.
ClippingAnalysis ==
    /\ pc = "clipping"
    /\ max_power_kw > 0
    /\ LET r == calculate_clipping_loss(pv_data.rows, max_power_kw)
           pct == loss_percentage(r.clipping_loss_energy, pv_data.rows)
       IN  /\ clipped_pv' = Some(r.clipped_energy)
           /\ clipping_loss' = Some(r.clipping_loss_energy)
           /\ analysis_pv' = Some(r.clipped_energy)
           /\ ui' = ui \o
                <<Metric("Urspruengliche PV-Erzeugung", SumVals(pv_data.rows), 1),
                  Metric("Nach Clipping", SumVals(r.clipped_energy), 1),
                  Metric("Clipping-Verluste", SumVals(r.clipping_loss_energy), 1),
                  Metric("Verlust in %", pct.num, pct.den)>>
    /\ pc' = "economics"
    /\ UNCHANGED <<pv_file, price_file, max_power_kw, eeg_ct_per_kwh, pv_data,
                   price_data, economics>>

\* Lines 237-238: max_power_kw is 0, the loaded series is analysed as is.
NoClipping ==
    /\ pc = "clipping"
    /\ ~(max_power_kw > 0)
    /\ analysis_pv' = pv_data
    /\ pc' = "economics"
    /\ UNCHANGED <<pv_file, price_file, max_power_kw, eeg_ct_per_kwh, pv_data,
                   price_data, clipped_pv, clipping_loss, economics, ui>>

\* What calculate_economics writes before it returns.
economics_messages(r) ==
    <<Element("expander", "Debug: Zeitreihen-Synchronisation"),
      Element("write", "Direkte Zeitstempel-Uebereinstimmungen")>> \o
    (IF r.outcome = "raised" THEN <<>>
     ELSE IF r.branch = "exact"
          THEN <<Element("success", "Perfekte Zeitstempel-Uebereinstimmung")>>
     ELSE <<Element("info", "Keine exakten Uebereinstimmungen")>> \o
          (IF r.outcome = "ok"
           THEN <<Element("success", "Matching erfolgreich")>>
           ELSE <<Element("error", "Keine passenden Zeitstempel")>>))

\* Lines 241-243: the economics of the analysed series; the dashboard
\* follows only for a result, and an exception ends the run.
Economics ==
    /\ pc = "economics"
    /\ economics' = calculate_economics(analysis_pv, price_data, eeg_ct_per_kwh)
    /\ ui' = ui \o economics_messages(economics')
    /\ pc' = IF economics'.outcome = "ok" THEN "dashboard"
             ELSE IF economics'.outcome = "raised" THEN "crashed"
             ELSE "done"
    /\ UNCHANGED <<pv_file, price_file, max_power_kw, eeg_ct_per_kwh, pv_data,
                   price_data, clipped_pv, clipping_loss, analysis_pv>>

\* Lines 244-306: the economics metrics, the charts and the summary.
Dashboard ==
    /\ pc = "dashboard"
    /\ ui' = ui \o
         <<Element("header", "Wirtschaftlichkeitsanalyse"),
           Metric("Gesamt PV-Erzeugung", economics.total_pv_kwh, 1),
           Metric("EEG-Erloese", economics.total_eeg_revenue, 1),
           Metric("Potentielle Markterloese", economics.total_market_revenue, 1),
           Metric("Durchschnittspreis", SumVals(economics.prices), Len(economics.prices)),
           Metric("Opportunitaetskosten", economics.total_opportunity_cost, 1),
           IF economics.total_opportunity_cost > 0
           THEN Element("warning", "Markt > EEG")
           ELSE Element("success", "EEG > Markt"),
           Element("header", "Visualisierungen"),
           Element("pyplot", "fig"),
           Element("header", "Zusammenfassung"),
           IF economics.total_opportunity_cost > 0
           THEN Element("error", "Durch die EEG-Verguetung entgehen Ihnen")
           ELSE Element("success", "Die EEG-Verguetung bringt Ihnen")>> \o
         (IF max_power_kw > 0 /\ SumVals(clipping_loss.rows) > 0
          THEN <<[kind |-> "warning", name |-> "Clipping-Verluste",
                  num |-> loss_percentage(clipping_loss.rows, pv_data.rows).num,
                  den |-> loss_percentage(clipping_loss.rows, pv_data.rows).den]>>
          ELSE <<>>)
    /\ pc' = "done"
    /\ UNCHANGED <<pv_file, price_file, max_power_kw, eeg_ct_per_kwh, pv_data,
                   price_data, clipped_pv, clipping_loss, analysis_pv, economics>>

Next ==
    \/ NoFiles
    \/ LoadData
    \/ ClippingAnalysis
    \/ NoClipping
    \/ Economics
    \/ Dashboard

Spec == Init /\ [][Next]_vars

-----------------------------------------------------------------------------
(* Properties                                                              *)

Loaded == pc # "start"

AfterClipping == pc \in {"economics", "dashboard", "done", "crashed"} /\ ~analysis_pv.none

AfterEconomics == economics.outcome # "-"

\* Every entry of a loaded series is the timestamp and the value of one row
\* of its file.
OwnRows(file, data) ==
    ~data.none =>
        \A i \in DOMAIN data.rows :
            \E j \in DOMAIN file.rows :
                /\ ~ParseLabel(file.rows[j].label).none
                /\ ParseLabel(file.rows[j].label).t = data.rows[i].ts
                /\ file.rows[j].val = data.rows[i].val

\* C1: every (timestamp, value) pair of a series load_series returns is the
\* timestamp and the value of one and the same input row, wherever the
\* skipped rows stand in the file.
C1_PairsComeFromOneRow ==
    Loaded => OwnRows(pv_file, pv_data) /\ OwnRows(price_file, price_data)

\* The sum, over the aligned intervals whose price is not negative, of
\* energy times tariff (in ct).
RECURSIVE EligibleCents(_, _, _)
EligibleCents(energy, prices, tariff) ==
    IF energy = <<>> THEN 0
    ELSE (IF Head(prices).val >= 0 THEN Head(energy).val * tariff ELSE 0)
             + EligibleCents(Tail(energy), Tail(prices), tariff)

\* C2: total_eeg_revenue is the tariff paid on the clipped energy of the
\* intervals with non-negative price, divided by 100 (currency units):
\* 100 * total_eeg_revenue equals that sum in ct.
C2_EegRevenueInCurrency ==
    economics.outcome = "ok" =>
        100 * economics.total_eeg_revenue
            = EligibleCents(economics.pv_energy, economics.prices, eeg_ct_per_kwh)

\* C3: the loss percentage shown is exactly 0 (a defined number) whenever
\* the total PV energy of the loaded series is 0 and max_power_kw > 0.
C3_LossPercentageZero ==
    \A i \in DOMAIN ui :
        (ui[i].kind = "metric" /\ ui[i].name = "Verlust in %"
            /\ max_power_kw > 0 /\ SumVals(pv_data.rows) = 0)
        => (ui[i].den # 0 /\ ui[i].num = 0)

StrictlyIncreasing(data) ==
    \A i, j \in DOMAIN data.rows : i < j => Ord(data.rows[i].ts) < Ord(data.rows[j].ts)

\* C4: the timestamps of every series load_series returns are strictly
\* increasing, so no instant occurs twice.
C4_StrictlyIncreasingUnique ==
    Loaded => StrictlyIncreasing(pv_data) /\ StrictlyIncreasing(price_data)

\* C5: for every PV series and every max_power_kw >= 0, at every interval
\* the clipped energy is at most the PV energy, the lost energy is their
\* difference and the lost energy is not negative.
C5_ClippingOnlyReduces ==
    (Loaded /\ ~pv_data.none) =>
        /\ \A m \in PowerInputs :
              LET r == calculate_clipping_loss(pv_data.rows, m) IN
              /\ DOMAIN r.clipped_energy = DOMAIN pv_data.rows
              /\ DOMAIN r.clipping_loss_energy = DOMAIN pv_data.rows
              /\ \A i \in DOMAIN pv_data.rows :
                    /\ r.clipped_energy[i].val <= pv_data.rows[i].val
                    /\ r.clipping_loss_energy[i].val
                          = pv_data.rows[i].val - r.clipped_energy[i].val
                    /\ r.clipping_loss_energy[i].val >= 0
        /\ ~clipped_pv.none =>
              \A i \in DOMAIN pv_data.rows :
                    /\ clipped_pv.rows[i].val <= pv_data.rows[i].val
                    /\ clipping_loss.rows[i].val
                          = pv_data.rows[i].val - clipped_pv.rows[i].val
                    /\ clipping_loss.rows[i].val >= 0

\* C5 witness: the clipping analysis has run and cut an interval.
C5_Witness ==
    /\ ~clipping_loss.none
    /\ \E i \in DOMAIN clipping_loss.rows :
          clipping_loss.rows[i].val > 0 /\ clipped_pv.rows[i].val < pv_data.rows[i].val

\* No PV timestamp equals a price timestamp or has one within 15 minutes.
NoOverlap ==
    /\ ~analysis_pv.none /\ ~price_data.none
    /\ \A i \in DOMAIN analysis_pv.rows : \A j \in DOMAIN price_data.rows :
          \/ Ord(analysis_pv.rows[i].ts) - Ord(price_data.rows[j].ts) > 15
          \/ Ord(price_data.rows[j].ts) - Ord(analysis_pv.rows[i].ts) > 15

EconomicsMetricShown ==
    \E i \in DOMAIN ui :
        ui[i].kind = "metric"
        /\ ui[i].name \in {"Gesamt PV-Erzeugung", "EEG-Erloese", "Potentielle Markterloese",
                            "Durchschnittspreis", "Opportunitaetskosten"}

\* C6: when no PV timestamp has a price timestamp at or within 15 minutes
\* of it, calculate_economics returns None, the results are not computed
\* and no economics metric is shown.
C6_NoOverlapIsFailure ==
    (AfterEconomics /\ NoOverlap) =>
        /\ economics = NoResult("none")
        /\ pc = "done"
        /\ ~EconomicsMetricShown

\* C6 witness: the economics step ran on two series without overlap.
C6_Witness ==
    AfterEconomics /\ NoOverlap /\ economics.outcome = "none" /\ pc = "done"

MetricShown == \E i \in DOMAIN ui : ui[i].kind = "metric"

\* C7: a run that ends with a missing file, a failed load or a failed
\* alignment has rendered no metric.
C7_NoMetricOnFailure ==
    (pc = "done" /\ (\/ pv_file.none \/ price_file.none
                     \/ pv_data.none \/ price_data.none
                     \/ economics.outcome = "none"))
        => ~MetricShown

\* The series handed to the economics step is the loaded series clipped at
\* max_power_kw: min(pv * 4, max_power_kw) / 4 at every interval.
HandedClipped ==
    /\ Len(analysis_pv.rows) = Len(pv_data.rows)
    /\ \A i \in DOMAIN pv_data.rows :
          /\ analysis_pv.rows[i].ts = pv_data.rows[i].ts
          /\ analysis_pv.rows[i].val * 4
                = (IF pv_data.rows[i].val * 4 <= max_power_kw
                   THEN pv_data.rows[i].val * 4 ELSE max_power_kw)

\* C8 as stated: for every max_power_kw >= 0, 0 included, the energy handed
\* to the economics step is the clipped energy.
C8_ClippedForEveryLimit == AfterClipping => HandedClipped

\* C8 amended: for every max_power_kw > 0 the energy handed to the
\* economics step is the clipped energy; with max_power_kw = 0 clipping is
\* skipped and the loaded series is handed over unchanged.
C8_ClippedForPositiveLimit ==
    AfterClipping =>
        /\ max_power_kw > 0 => HandedClipped
        /\ max_power_kw = 0 => analysis_pv = pv_data

\* C8 witness: a positive limit cut the energy handed to the economics step.
C8_Witness ==
    /\ AfterClipping /\ AfterEconomics /\ max_power_kw > 0
    /\ \E i \in DOMAIN pv_data.rows : analysis_pv.rows[i].val < pv_data.rows[i].val

\* C9: every timestamp of a loaded series has the year 2025.
C9_AlwaysTargetYear ==
    Loaded =>
        /\ \A i \in DOMAIN pv_data.rows : pv_data.rows[i].ts.year = 2025
        /\ \A i \in DOMAIN price_data.rows : price_data.rows[i].ts.year = 2025

\* C10: when alignment succeeds the aligned PV and price series carry the
\* same timestamps in the same ascending order and are not empty; the
\* exact branch keeps common timestamps only; nearest-neighbour matching
\* is used only when there is no common timestamp and keeps a PV point
\* only if a price timestamp lies within 15 minutes of it.
C10_AlignedSameOrderedIndex ==
    economics.outcome = "ok" =>
        LET a == economics.pv_energy
            b == economics.prices
        IN  /\ Len(a) >= 1
            /\ Len(a) = Len(b)
            /\ \A i \in DOMAIN a : a[i].ts = b[i].ts
            /\ \A i, j \in DOMAIN a : i < j => Ord(a[i].ts) <= Ord(a[j].ts)
            /\ economics.branch \in {"exact", "nearest"}
            /\ economics.branch = "exact" =>
                  \A i \in DOMAIN a :
                      /\ \E k \in DOMAIN analysis_pv.rows : analysis_pv.rows[k] = a[i]
                      /\ \E k \in DOMAIN price_data.rows : price_data.rows[k].ts = a[i].ts
            /\ economics.branch = "nearest" =>
                  /\ \A k \in DOMAIN analysis_pv.rows : \A l \in DOMAIN price_data.rows :
                        analysis_pv.rows[k].ts # price_data.rows[l].ts
                  /\ \A i \in DOMAIN a :
                        /\ \E k \in DOMAIN analysis_pv.rows : analysis_pv.rows[k] = a[i]
                        /\ \E l \in DOMAIN price_data.rows :
                              /\ Ord(a[i].ts) - Ord(price_data.rows[l].ts) <= 15
                              /\ Ord(price_data.rows[l].ts) - Ord(a[i].ts) <= 15

\* C10 witness: nearest-neighbour matching succeeded and dropped a PV point
\* that has no price within the tolerance.
C10_Witness ==
    /\ economics.outcome = "ok"
    /\ economics.branch = "nearest"
    /\ Len(economics.pv_energy) < Len(analysis_pv.rows)

====
